---- MODULE Spec2Model ----
(***************************************************************************)
(* The scene graph of src/src/index.ts: shape nodes with local offsets,    *)
(* child lists and parent back-links, absolute-coordinate resolution,      *)
(* point containment, click dispatch and the draw pass.                    *)
(***************************************************************************)
EXTENDS Integers, Sequences, FiniteSets, TLC

VARIABLES
    kind,       \* node -> class of the object ("Scene", "Rectangle", ...)
    x, y,       \* node -> local offset (BaseShape.x, BaseShape.y)
    width,      \* node -> BaseShape.width
    height,     \* node -> BaseShape.height
    radius,     \* circle -> Circle.radius
    text,       \* text node -> CustomText.text, a sequence of characters
    children,   \* node -> BaseShape.children, a sequence of nodes
    parent,     \* node -> BaseShape.parent, a node or Null
    ctx,        \* the operations the 2D context received in the last draw pass
    call,       \* the last call made on the scene graph, with its arguments
    prev,       \* the call made before it
    ret,        \* what the last call returned and which methods it invoked
    pre,        \* the fields of the nodes as they were before the last call
    calls       \* number of calls made so far (bounded runs only)

shape == <<kind, x, y, width, height, radius, text, children, parent>>
ghost == <<ctx, call, prev, ret, pre, calls>>
vars == <<kind, x, y, width, height, radius, text, children, parent,
          ctx, call, prev, ret, pre, calls>>

Null == "null"

Nodes == DOMAIN kind

(***************************************************************************)
(* Bounds of the model.                                                    *)
(***************************************************************************)
\* longest run of addChild/removeChild calls explored by SpecTree
MaxCalls == 4

\* local offsets assigned to x and y range over 0..MaxOffset
MaxOffset == 1

\* coordinates of queried points and of events range over -1..MaxCoord
MaxCoord == 3

\* radii of constructed circles range over 0..MaxRadius
MaxRadius == 2

\* coordinates of dispatched events range over 0..MaxEvent
MaxEvent == 2

\* strings assigned to a text node have at most MaxText characters
MaxText == 2

\* the deepest nesting of getAbsoluteX/getAbsoluteY calls that is followed
MaxDepth == 4

(***************************************************************************)
(* Constants of the program.                                               *)
(***************************************************************************)
\* the vertical advance per character in CustomText.draw
LineHeight == 20

\* the amount added to the running offset to give the height
FontHeight == 20

\* the baseline offset and the height of the single-line CustomText.draw
SingleLine == 16

(***************************************************************************)
(* Constructors: the fields of a freshly constructed object.               *)
(***************************************************************************)
NewRectangle(px, py, w, h) ==
    [kind |-> "Rectangle", x |-> px, y |-> py, width |-> w, height |-> h]

NewCircle(px, py, r) ==
    [kind |-> "Circle", x |-> px, y |-> py, width |-> r * 2, height |-> r * 2,
     radius |-> r]

NewCustomText(px, py, t) ==
    [kind |-> "CustomText", x |-> px, y |-> py, width |-> 0, height |-> 0,
     text |-> t]

NewScene(canvasWidth, canvasHeight) ==
    [kind |-> "Scene", x |-> 0, y |-> 0,
     width |-> canvasWidth, height |-> canvasHeight]

NewPalaceContainer(px, py, w, h) ==
    [kind |-> "PalaceContainer", x |-> px, y |-> py, width |-> w, height |-> h]

\* The state right after the objects objs (name -> constructed fields) are
\* built: every child list empty, every parent null.
Construct(objs) ==
    /\ kind = [n \in DOMAIN objs |-> objs[n].kind]
    /\ x = [n \in DOMAIN objs |-> objs[n].x]
    /\ y = [n \in DOMAIN objs |-> objs[n].y]
    /\ width = [n \in DOMAIN objs |-> objs[n].width]
    /\ height = [n \in DOMAIN objs |-> objs[n].height]
    /\ radius = [n \in {m \in DOMAIN objs : objs[m].kind = "Circle"} |->
                    objs[n].radius]
    /\ text = [n \in {m \in DOMAIN objs : objs[m].kind = "CustomText"} |->
                    objs[n].text]
    /\ children = [n \in DOMAIN objs |-> <<>>]
    /\ parent = [n \in DOMAIN objs |-> Null]

(***************************************************************************)
(* Bookkeeping of calls (not program state).                               *)
(***************************************************************************)
NoCall == [op |-> "none", self |-> Null, arg |-> Null,
           px |-> 0, py |-> 0, etype |-> "none", occ |-> 0, again |-> FALSE]

NoRet == [result |-> FALSE, clicked |-> <<>>, tested |-> <<>>,
          handled |-> <<>>]

NoPre == [children |-> <<>>, parent |-> <<>>]

Fields == [children |-> children, parent |-> parent, x |-> x, y |-> y,
           width |-> width, height |-> height]

GhostInit ==
    /\ ctx = <<>>
    /\ call = NoCall
    /\ prev = NoCall
    /\ ret = NoRet
    /\ pre = NoPre
    /\ calls = 0

(***************************************************************************)
(* Array helpers, 0-based like the JavaScript they model.                  *)
(***************************************************************************)
\* Array.prototype.indexOf: index of the first occurrence, -1 when absent
IndexOf(s, e) ==
    IF \E i \in 1..Len(s) : s[i] = e
    THEN (CHOOSE i \in 1..Len(s) :
              s[i] = e /\ \A j \in 1..(i - 1) : s[j] # e) - 1
    ELSE -1

\* Array.prototype.splice(index, 1): the array without the entry at index
Splice1(s, index) ==
    [i \in 1..(Len(s) - 1) |-> IF i <= index THEN s[i] ELSE s[i + 1]]

\* number of occurrences of e in s
Count(s, e) == Cardinality({i \in 1..Len(s) : s[i] = e})

(***************************************************************************)
(* BaseShape.addChild / BaseShape.removeChild                              *)
(***************************************************************************)
\* an addChild that forgets to set the back-link
AddChildNoLink(self, child) ==
    /\ children' = [children EXCEPT ![self] = Append(@, child)]
    /\ UNCHANGED <<kind, x, y, width, height, radius, text, parent>>

AddChild(self, child) ==
    /\ children' = [children EXCEPT ![self] = Append(@, child)]
    /\ parent' = [parent EXCEPT ![child] = self]
    /\ UNCHANGED <<kind, x, y, width, height, radius, text>>

\* a removeChild that forgets to clear the back-link
RemoveChildKeepLink(self, child) ==
    LET index == IndexOf(children[self], child) IN
    /\ children' = IF index # -1
                   THEN [children EXCEPT ![self] = Splice1(@, index)]
                   ELSE children
    /\ UNCHANGED <<kind, x, y, width, height, radius, text, parent>>

\* a removeChild without the "index !== -1" test: splice(-1, 1) drops the
\* last entry
RemoveChildUnchecked(self, child) ==
    LET index == IndexOf(children[self], child)
        at == IF index = -1 THEN Len(children[self]) - 1 ELSE index
    IN
    /\ children' = IF children[self] # <<>>
                   THEN [children EXCEPT ![self] = Splice1(@, at)]
                   ELSE children
    /\ parent' = [parent EXCEPT ![child] = Null]
    /\ UNCHANGED <<kind, x, y, width, height, radius, text>>

RemoveChild(self, child) ==
    LET index == IndexOf(children[self], child) IN
    /\ IF index # -1
       THEN /\ children' = [children EXCEPT ![self] = Splice1(@, index)]
            /\ parent' = [parent EXCEPT ![child] = Null]
       ELSE UNCHANGED <<children, parent>>
    /\ UNCHANGED <<kind, x, y, width, height, radius, text>>

(***************************************************************************)
(* Absolute coordinates: BaseShape.getAbsoluteX/Y and the Scene override.  *)
(* The recursion follows the parent links, so it is evaluated only where   *)
(* the parent chain is acyclic.                                            *)
(***************************************************************************)
RECURSIVE GetAbsoluteX(_), GetAbsoluteY(_)

\* a resolution that adds the parent's local offset instead of recursing
BaseShapeGetAbsoluteXOneLevel(n) ==
    IF parent[n] # Null THEN x[parent[n]] + x[n] ELSE x[n]

BaseShapeGetAbsoluteX(n) ==
    IF parent[n] # Null THEN GetAbsoluteX(parent[n]) + x[n] ELSE x[n]

BaseShapeGetAbsoluteY(n) ==
    IF parent[n] # Null THEN GetAbsoluteY(parent[n]) + y[n] ELSE y[n]

SceneGetAbsoluteX(n) == 0

SceneGetAbsoluteY(n) == 0

\* dynamic dispatch on the class of the object
GetAbsoluteX(n) ==
    IF kind[n] = "Scene" THEN SceneGetAbsoluteX(n) ELSE BaseShapeGetAbsoluteX(n)

GetAbsoluteY(n) ==
    IF kind[n] = "Scene" THEN SceneGetAbsoluteY(n) ELSE BaseShapeGetAbsoluteY(n)

(***************************************************************************)
(* Point containment: BaseShape.containsPoint and the Circle override.     *)
(***************************************************************************)
\* a rectangle test that excludes the right and bottom edges
BaseShapeContainsPointHalfOpen(n, px, py) ==
    LET localX == px - GetAbsoluteX(n)
        localY == py - GetAbsoluteY(n)
    IN  localX >= 0 /\ localX < width[n] /\ localY >= 0 /\ localY < height[n]

BaseShapeContainsPoint(n, px, py) ==
    LET localX == px - GetAbsoluteX(n)
        localY == py - GetAbsoluteY(n)
    IN  localX >= 0 /\ localX <= width[n] /\ localY >= 0 /\ localY <= height[n]

\* Math.sqrt of a natural number: its integer part, and whether it is exact
Sqrt(n) ==
    LET f == CHOOSE k \in 0..n : k * k <= n /\ (k + 1) * (k + 1) > n
    IN  [floor |-> f, exact |-> (f * f = n)]

\* Math.sqrt(n) <= r for an integer r
SqrtLeq(n, r) ==
    LET s == Sqrt(n) IN IF s.exact THEN s.floor <= r ELSE s.floor < r

\* a circle test against the bounding box half-width on each axis
WithinRadiusPerAxis(centerX, centerY, r, px, py) ==
    /\ SqrtLeq((px - centerX) * (px - centerX), r)
    /\ SqrtLeq((py - centerY) * (py - centerY), r)

\* the distance from the point to the centre is at most r
WithinRadius(centerX, centerY, r, px, py) ==
    SqrtLeq((px - centerX) * (px - centerX) + (py - centerY) * (py - centerY), r)

CircleContainsPoint(n, px, py) ==
    LET centerX == GetAbsoluteX(n) + radius[n]
        centerY == GetAbsoluteY(n) + radius[n]
    IN  WithinRadius(centerX, centerY, radius[n], px, py)

\* dynamic dispatch on the class of the object
ContainsPoint(n, px, py) ==
    IF kind[n] = "Circle"
    THEN CircleContainsPoint(n, px, py)
    ELSE BaseShapeContainsPoint(n, px, py)

(***************************************************************************)
(* Callers that keep the graph a forest (the caller's obligation: a child  *)
(* is attached to one container at most and never to its own descendant). *)
(***************************************************************************)
RECURSIVE Ancestors(_)
Ancestors(n) ==
    IF parent[n] = Null THEN {} ELSE {parent[n]} \cup Ancestors(parent[n])

Detached(c) ==
    /\ parent[c] = Null
    /\ \A n \in Nodes : Count(children[n], c) = 0

CallerKeepsTree(p, c) ==
    /\ Detached(c)
    /\ c # p
    /\ c \notin Ancestors(p)

Offsets == 0..MaxOffset

Coords == (-1)..MaxCoord

(***************************************************************************)
(* Calls shared by the specifications below.                               *)
(***************************************************************************)
\* Calls are synchronous and run to completion on the single UI thread: a
\* call starts when no other call is in progress, and its record is kept
\* until control returns to the event loop.
Idle == call.op = "none"

Return ==
    /\ ~Idle
    /\ call' = NoCall
    /\ ret' = NoRet
    /\ ctx' = <<>>
    /\ pre' = NoPre
    /\ UNCHANGED <<shape, prev, calls>>

\* a call that changes the graph: a later draw is no longer a repeated one
Mutated ==
    /\ prev' = NoCall
    /\ UNCHANGED <<ctx, call, ret, pre, calls>>

SetX(n, v) ==
    /\ x' = [x EXCEPT ![n] = v]
    /\ UNCHANGED <<kind, y, width, height, radius, text, children, parent>>

SetY(n, v) ==
    /\ y' = [y EXCEPT ![n] = v]
    /\ UNCHANGED <<kind, x, width, height, radius, text, children, parent>>

CallAddChild ==
    \E p \in Nodes, c \in Nodes :
        Idle /\ CallerKeepsTree(p, c) /\ AddChild(p, c) /\ Mutated

CallRemoveChild ==
    \E p \in Nodes, c \in Nodes : Idle /\ RemoveChild(p, c) /\ Mutated

CallSetX == \E n \in Nodes, v \in Offsets : Idle /\ SetX(n, v) /\ Mutated

CallSetY == \E n \in Nodes, v \in Offsets : Idle /\ SetY(n, v) /\ Mutated

QueryContainsPoint(n, px, py) ==
    /\ call' = [NoCall EXCEPT !.op = "containsPoint", !.self = n,
                              !.px = px, !.py = py]
    /\ ret' = [NoRet EXCEPT !.result = ContainsPoint(n, px, py)]
    /\ UNCHANGED <<shape, ctx, prev, pre, calls>>

CallContainsPoint ==
    \E n \in Nodes, px \in Coords, py \in Coords :
        Idle /\ QueryContainsPoint(n, px, py)

(***************************************************************************)
(* SpecGeom: a scene, a container and a rectangle are attached, detached   *)
(* and moved.                                                              *)
(***************************************************************************)
GeomObjects ==
    ("scene" :> NewScene(3, 2))
    @@ ("palace" :> NewPalaceContainer(1, 1, 2, 2))
    @@ ("rect" :> NewRectangle(0, 1, 2, 1))

InitGeom == Construct(GeomObjects) /\ GhostInit

NextGeom == CallAddChild \/ CallRemoveChild \/ CallSetX \/ CallSetY

SpecGeom == InitGeom /\ [][NextGeom]_vars

(***************************************************************************)
(* SpecContains: a scene, a rectangle and a circle, the circle constructed *)
(* with any offset and radius within the bounds, are attached and detached *)
(* and containsPoint is called on them.                                    *)
(***************************************************************************)
ContainsObjects(cx, r) ==
    ("scene" :> NewScene(3, 2))
    @@ ("rect" :> NewRectangle(0, 1, 2, 1))
    @@ ("circle" :> NewCircle(cx, 0, r))

InitContains ==
    /\ \E cx \in Offsets, r \in 0..MaxRadius :
          Construct(ContainsObjects(cx, r))
    /\ GhostInit

NextContains ==
    CallAddChild \/ CallRemoveChild \/ CallContainsPoint \/ Return

SpecContains == InitContains /\ [][NextContains]_vars

(***************************************************************************)
(* C1: absolute position = parent's absolute position + local offset.      *)
(***************************************************************************)
ChildIsParentPlusLocal(n) ==
    /\ GetAbsoluteX(n) = GetAbsoluteX(parent[n]) + x[n]
    /\ GetAbsoluteY(n) = GetAbsoluteY(parent[n]) + y[n]

RootRules ==
    \A n \in Nodes :
        /\ (kind[n] # "Scene" /\ parent[n] = Null) =>
               (GetAbsoluteX(n) = x[n] /\ GetAbsoluteY(n) = y[n])
        /\ kind[n] = "Scene" => (GetAbsoluteX(n) = 0 /\ GetAbsoluteY(n) = 0)

\* C1 as stated: every node with a parent is at its parent's absolute
\* position plus its local offset, a parentless non-Scene node is at its
\* local offset, and a Scene is at (0, 0).
AbsoluteIsParentPlusLocal ==
    /\ \A n \in Nodes : parent[n] # Null => ChildIsParentPlusLocal(n)
    /\ RootRules

\* C1 amended: every node other than a Scene that has a parent is at its
\* parent's absolute position plus its local offset; a parentless non-Scene
\* node is at its local offset; a Scene is at (0, 0) whatever its x, y and
\* parent are.
AbsoluteIsParentPlusLocalExceptScene ==
    /\ \A n \in Nodes :
          (kind[n] # "Scene" /\ parent[n] # Null) => ChildIsParentPlusLocal(n)
    /\ RootRules

\* a node with a non-zero offset below a Scene with a non-zero offset, that
\* Scene itself attached below a node that is not at the origin
AbsoluteWitness ==
    \E n \in Nodes, s \in Nodes :
        /\ kind[n] # "Scene" /\ parent[n] = s
        /\ x[n] # 0 /\ y[n] # 0
        /\ kind[s] = "Scene" /\ parent[s] # Null
        /\ x[s] # 0 /\ y[s] # 0
        /\ GetAbsoluteX(parent[s]) # 0 /\ GetAbsoluteY(parent[s]) # 0

(***************************************************************************)
(* C4: the default containsPoint is the closed rectangle                   *)
(* [absX, absX + width] x [absY, absY + height].                           *)
(***************************************************************************)
\* C4: containsPoint(x, y) of a rectangle-bounded node is true iff
\* absX <= x <= absX + width and absY <= y <= absY + height.
RectangleContainment ==
    (call.op = "containsPoint" /\ kind[call.self] # "Circle") =>
        LET n == call.self
            absX == GetAbsoluteX(n)
            absY == GetAbsoluteY(n)
        IN  ret.result <=> /\ absX <= call.px /\ call.px <= absX + width[n]
                           /\ absY <= call.py /\ call.py <= absY + height[n]

\* the bottom-right corner of an attached node away from the origin is inside
RectangleContainmentWitness ==
    /\ call.op = "containsPoint"
    /\ kind[call.self] # "Circle"
    /\ parent[call.self] # Null
    /\ GetAbsoluteX(call.self) > 0
    /\ call.px = GetAbsoluteX(call.self) + width[call.self]
    /\ call.py = GetAbsoluteY(call.self) + height[call.self]
    /\ ret.result

(***************************************************************************)
(* C5: Circle.containsPoint is the closed disc of radius r around the      *)
(* absolute position plus (r, r).                                          *)
(***************************************************************************)
\* C5: Circle.containsPoint(x, y) is true iff (x-cx)^2 + (y-cy)^2 <= r^2
\* with (cx, cy) the absolute position plus (r, r); radius 40 at the origin
\* contains (40,40) and not (81,40).
CircleContainment ==
    /\ (call.op = "containsPoint" /\ kind[call.self] = "Circle") =>
          LET n == call.self
              r == radius[n]
              cx == GetAbsoluteX(n) + r
              cy == GetAbsoluteY(n) + r
              dx == call.px - cx
              dy == call.py - cy
          IN  ret.result <=> dx * dx + dy * dy <= r * r
    \* radius 40 at offset (0,0) below the root
    /\ WithinRadius(0 + 40, 0 + 40, 40, 40, 40)
    /\ ~WithinRadius(0 + 40, 0 + 40, 40, 81, 40)

\* a point of the bounding box of an attached circle, farther than r from
\* its centre, is outside
CircleContainmentWitness ==
    /\ call.op = "containsPoint"
    /\ kind[call.self] = "Circle"
    /\ parent[call.self] # Null
    /\ radius[call.self] >= 2
    /\ GetAbsoluteX(call.self) > 0
    /\ call.px = GetAbsoluteX(call.self)
    /\ call.py = GetAbsoluteY(call.self) + 1
    /\ ~ret.result

(***************************************************************************)
(* Click dispatch: BaseShape.handleEvent and onClick.  A trace records, in *)
(* order, the nodes whose handleEvent ran (handled), the nodes whose       *)
(* containsPoint was evaluated (tested) and the nodes whose onClick ran    *)
(* (clicked).                                                              *)
(***************************************************************************)
NoTrace == [clicked |-> <<>>, tested |-> <<>>, handled |-> <<>>]

\* onClick of every class only writes to the console
OnClick(n, tr) == [tr EXCEPT !.clicked = Append(@, n)]

RECURSIVE BaseShapeHandleEvent(_, _, _)

\* a loop over the children from the first to the last
RECURSIVE ForLoopForward(_, _, _, _)
ForLoopForward(n, i, e, tr) ==
    IF i >= Len(children[n])
    THEN IF e.type = "click" THEN OnClick(n, tr) ELSE tr
    ELSE LET child == children[n][i + 1]
             tested == [tr EXCEPT !.tested = Append(@, child)]
         IN  IF ContainsPoint(child, e.x, e.y)
             THEN BaseShapeHandleEvent(child, e, tested)
             ELSE ForLoopForward(n, i + 1, e, tested)

BaseShapeHandleEventForward(n, e, tr) ==
    ForLoopForward(n, 0, e, [tr EXCEPT !.handled = Append(@, n)])

\* a loop that goes on after a child has handled the event
RECURSIVE ForLoopNoReturn(_, _, _, _)
ForLoopNoReturn(n, i, e, tr) ==
    IF i < 0
    THEN IF e.type = "click" THEN OnClick(n, tr) ELSE tr
    ELSE LET child == children[n][i + 1]
             tested == [tr EXCEPT !.tested = Append(@, child)]
         IN  IF ContainsPoint(child, e.x, e.y)
             THEN ForLoopNoReturn(n, i - 1, e,
                                  BaseShapeHandleEvent(child, e, tested))
             ELSE ForLoopNoReturn(n, i - 1, e, tested)

BaseShapeHandleEventNoReturn(n, e, tr) ==
    ForLoopNoReturn(n, Len(children[n]) - 1, e,
                    [tr EXCEPT !.handled = Append(@, n)])

\* the for loop of handleEvent from index i down to 0, then the node's own
\* handling
RECURSIVE ForLoop(_, _, _, _)
ForLoop(n, i, e, tr) ==
    IF i < 0
    THEN IF e.type = "click" THEN OnClick(n, tr) ELSE tr
    ELSE LET child == children[n][i + 1]
             tested == [tr EXCEPT !.tested = Append(@, child)]
         IN  IF ContainsPoint(child, e.x, e.y)
             THEN BaseShapeHandleEvent(child, e, tested)
             ELSE ForLoop(n, i - 1, e, tested)

BaseShapeHandleEvent(n, e, tr) ==
    ForLoop(n, Len(children[n]) - 1, e, [tr EXCEPT !.handled = Append(@, n)])

EventTypes == {"click", "mousemove"}

EventCoords == 0..MaxEvent

\* class MouseClickEvent, and any other object with the HandleEvent fields
NewEvent(type, ex, ey) == [type |-> type, x |-> ex, y |-> ey]

CallHandleEvent ==
    \E n \in Nodes, type \in EventTypes, ex \in EventCoords, ey \in EventCoords :
        /\ Idle
        /\ call' = [NoCall EXCEPT !.op = "handleEvent", !.self = n,
                                  !.px = ex, !.py = ey, !.etype = type]
        /\ ret' = BaseShapeHandleEvent(n, NewEvent(type, ex, ey), NoTrace)
                  @@ NoRet
        /\ UNCHANGED <<shape, ctx, prev, pre, calls>>

(***************************************************************************)
(* SpecDispatch: a scene, a container, a rectangle, a circle and a text    *)
(* node are attached and detached by a caller that keeps the graph a       *)
(* forest, and events are dispatched to any node.                          *)
(***************************************************************************)
DispatchObjects ==
    ("scene" :> NewScene(3, 2))
    @@ ("palace" :> NewPalaceContainer(0, 0, 2, 2))
    @@ ("rect" :> NewRectangle(0, 0, 1, 1))
    @@ ("circle" :> NewCircle(0, 0, 1))
    @@ ("text" :> NewCustomText(1, 1, <<"W", "i">>))

InitDispatch == Construct(DispatchObjects) /\ GhostInit

NextDispatch == CallAddChild \/ CallRemoveChild \/ CallHandleEvent \/ Return

SpecDispatch == InitDispatch /\ [][NextDispatch]_vars

(***************************************************************************)
(* C2: a click is delivered to exactly one node, the one reached from the  *)
(* entry node by moving to the highest-index child containing the point    *)
(* for as long as there is one; any other event invokes no onClick.        *)
(***************************************************************************)
HitIndices(n, px, py) ==
    {i \in 1..Len(children[n]) : ContainsPoint(children[n][i], px, py)}

RECURSIVE Receiver(_, _, _)
Receiver(n, px, py) ==
    LET hits == HitIndices(n, px, py) IN
    IF hits = {}
    THEN n
    ELSE Receiver(children[n][CHOOSE i \in hits : \A j \in hits : j <= i],
                  px, py)

\* C2: a click invokes onClick exactly once, on Receiver(entry); an event
\* of any other type invokes no onClick at all.
ClickReceiver ==
    call.op = "handleEvent" =>
        IF call.etype = "click"
        THEN ret.clicked = <<Receiver(call.self, call.px, call.py)>>
        ELSE ret.clicked = <<>>

\* a click that went two levels down, past a lower-index sibling that also
\* contains the point
ClickReceiverWitness ==
    /\ call.op = "handleEvent"
    /\ call.etype = "click"
    /\ Len(ret.handled) >= 3
    /\ Cardinality(HitIndices(call.self, call.px, call.py)) >= 2
    /\ ret.clicked = <<ret.handled[Len(ret.handled)]>>

(***************************************************************************)
(* C3: with children [A, B, C] of which B and C contain the point, the     *)
(* event goes to C; A and B are neither tested nor handed the event, and   *)
(* no onClick fires in their subtrees.                                     *)
(***************************************************************************)
RECURSIVE Subtree(_)
Subtree(n) ==
    {n} \cup UNION {Subtree(children[n][i]) : i \in 1..Len(children[n])}

InSeq(s, e) == \E i \in 1..Len(s) : s[i] = e

\* C3: handleEvent on a node with children [A, B, C], B and C containing
\* the point, hands the event to C first and never tests or enters A or B.
LastOfThree ==
    (/\ call.op = "handleEvent"
     /\ Len(children[call.self]) = 3
     /\ ContainsPoint(children[call.self][2], call.px, call.py)
     /\ ContainsPoint(children[call.self][3], call.px, call.py)) =>
        LET A == children[call.self][1]
            B == children[call.self][2]
            C == children[call.self][3]
        IN  /\ Len(ret.handled) >= 2
            /\ ret.handled[1] = call.self
            /\ ret.handled[2] = C
            /\ ret.tested[1] = C
            /\ \A n \in {A, B} : ~InSeq(ret.tested, n) /\ ~InSeq(ret.handled, n)
            /\ \A n \in Subtree(A) \cup Subtree(B) : ~InSeq(ret.clicked, n)

\* all three children contain the clicked point, and C has a child of its own
LastOfThreeWitness ==
    /\ call.op = "handleEvent"
    /\ call.etype = "click"
    /\ Len(children[call.self]) = 3
    /\ \A i \in 1..3 : ContainsPoint(children[call.self][i], call.px, call.py)
    /\ children[children[call.self][3]] # <<>>
    /\ Len(ret.clicked) = 1

(***************************************************************************)
(* Drawing.  A draw threads a state st = [ctx, width, height]: the         *)
(* operations sent to the 2D context so far and the width and height       *)
(* fields, which CustomText.draw assigns.                                  *)
(***************************************************************************)
Op(op, n, px, py, w, h, s) ==
    [op |-> op, node |-> n, x |-> px, y |-> py, w |-> w, h |-> h, s |-> s]

Send(st, ops) == [st EXCEPT !.ctx = @ \o ops]

\* ctx.measureText(s).width: the sum of the advance widths of the glyphs
GlyphWidth(c) == IF c = "W" THEN 2 ELSE 1

RECURSIVE MeasureText(_)
MeasureText(s) ==
    IF s = <<>> THEN 0 ELSE GlyphWidth(Head(s)) + MeasureText(Tail(s))

\* this.text.split('')[0] as measureText receives it: the first character,
\* or the string "undefined" when the text is empty
FirstCharacter(t) ==
    IF t = <<>>
    THEN <<"u", "n", "d", "e", "f", "i", "n", "e", "d">>
    ELSE <<t[1]>>

RECURSIVE Draw(_, _)

\* children drawn from the last to the first
RECURSIVE DrawChildrenReversed(_, _, _)
DrawChildrenReversed(n, i, st) ==
    IF i > Len(children[n])
    THEN st
    ELSE Draw(children[n][i], DrawChildrenReversed(n, i + 1, st))

\* this.children.forEach(child => child.draw(ctx)), from the i-th child on
RECURSIVE DrawChildren(_, _, _)
DrawChildren(n, i, st) ==
    IF i > Len(children[n])
    THEN st
    ELSE DrawChildren(n, i + 1, Draw(children[n][i], st))

RectangleDraw(n, st) ==
    LET absX == GetAbsoluteX(n)
        absY == GetAbsoluteY(n)
    IN  DrawChildren(n, 1,
            Send(st, <<Op("strokeStyle", n, 0, 0, 0, 0, ""),
                       Op("strokeRect", n, absX, absY,
                          st.width[n], st.height[n], "")>>))

CircleDraw(n, st) ==
    LET absX == GetAbsoluteX(n) + radius[n]
        absY == GetAbsoluteY(n) + radius[n]
    IN  DrawChildren(n, 1,
            Send(st, <<Op("fillStyle", n, 0, 0, 0, 0, ""),
                       Op("beginPath", n, 0, 0, 0, 0, ""),
                       Op("arc", n, absX, absY, radius[n], 0, ""),
                       Op("fill", n, 0, 0, 0, 0, "")>>))

\* the forEach over the characters: advances the running offset absY by
\* LineHeight and paints the character there; yields the final offset
RECURSIVE FillCharacters(_, _, _, _, _)
FillCharacters(n, i, absX, absY, st) ==
    IF i > Len(text[n])
    THEN [absY |-> absY, st |-> st]
    ELSE FillCharacters(n, i + 1, absX, absY + LineHeight,
             Send(st, <<Op("fillText", n, absX, absY + LineHeight,
                           0, 0, text[n][i])>>))

\* the draw that paints the whole string on one line
CustomTextDrawSingleLine(n, st) ==
    LET absX == GetAbsoluteX(n)
        absY == GetAbsoluteY(n)
        styled == Send(st, <<Op("font", n, 0, 0, 0, 0, ""),
                             Op("fillStyle", n, 0, 0, 0, 0, ""),
                             Op("fillText", n, absX, absY + SingleLine,
                                0, 0, text[n])>>)
    IN  DrawChildren(n, 1,
            [styled EXCEPT !.width[n] = MeasureText(text[n]),
                           !.height[n] = SingleLine])

\* a draw that adds the painted lines to the height it finds
CustomTextDrawAccumulating(n, st) ==
    LET absX == GetAbsoluteX(n)
        absY == GetAbsoluteY(n)
        styled == Send(st, <<Op("font", n, 0, 0, 0, 0, ""),
                             Op("fillStyle", n, 0, 0, 0, 0, "")>>)
        filled == FillCharacters(n, 1, absX, absY, styled)
    IN  DrawChildren(n, 1,
            [filled.st EXCEPT
                !.width[n] = MeasureText(FirstCharacter(text[n])),
                !.height[n] = @ + filled.absY + FontHeight])

CustomTextDraw(n, st) ==
    LET absX == GetAbsoluteX(n)
        absY == GetAbsoluteY(n)
        styled == Send(st, <<Op("font", n, 0, 0, 0, 0, ""),
                             Op("fillStyle", n, 0, 0, 0, 0, "")>>)
        filled == FillCharacters(n, 1, absX, absY, styled)
    IN  DrawChildren(n, 1,
            [filled.st EXCEPT
                !.width[n] = MeasureText(FirstCharacter(text[n])),
                !.height[n] = filled.absY + FontHeight])

SceneDraw(n, st) ==
    DrawChildren(n, 1,
        Send(st, <<Op("clearRect", n, 0, 0, st.width[n], st.height[n], "")>>))

PalaceContainerDraw(n, st) ==
    LET absX == GetAbsoluteX(n)
        absY == GetAbsoluteY(n)
    IN  DrawChildren(n, 1,
            Send(st, <<Op("strokeStyle", n, 0, 0, 0, 0, ""),
                       Op("strokeRect", n, absX, absY,
                          st.width[n], st.height[n], "")>>))

\* dynamic dispatch on the class of the object
Draw(n, st) ==
    CASE kind[n] = "Rectangle" -> RectangleDraw(n, st)
      [] kind[n] = "Circle" -> CircleDraw(n, st)
      [] kind[n] = "CustomText" -> CustomTextDraw(n, st)
      [] kind[n] = "Scene" -> SceneDraw(n, st)
      [] kind[n] = "PalaceContainer" -> PalaceContainerDraw(n, st)

SetText(n, t) ==
    /\ text' = [text EXCEPT ![n] = t]
    /\ UNCHANGED <<kind, x, y, width, height, radius, children, parent>>

RECURSIVE Strings(_)
Strings(len) ==
    IF len = 0
    THEN {<<>>}
    ELSE LET shorter == Strings(len - 1) IN
         shorter \cup {Append(t, c) : t \in shorter, c \in {"W", "i"}}

CallSetText ==
    \E n \in DOMAIN text, t \in Strings(MaxText) :
        Idle /\ SetText(n, t) /\ Mutated

\* scene.draw()
CallDraw ==
    \E s \in Nodes :
        /\ Idle
        /\ kind[s] = "Scene"
        /\ LET st == SceneDraw(s, [ctx |-> <<>>, width |-> width,
                                   height |-> height])
           IN  /\ ctx' = st.ctx
               /\ width' = st.width
               /\ height' = st.height
        /\ call' = [NoCall EXCEPT !.op = "draw", !.self = s,
                                  !.again = (prev.op = "draw")]
        /\ prev' = [NoCall EXCEPT !.op = "draw"]
        /\ pre' = Fields
        /\ UNCHANGED <<kind, x, y, radius, text, children, parent, ret, calls>>

(***************************************************************************)
(* SpecDraw: a scene, a container, a text node and a rectangle are         *)
(* attached, detached and moved by a caller that keeps the graph a forest, *)
(* the text is reassigned, and the scene is drawn.                         *)
(***************************************************************************)
DrawObjects ==
    ("scene" :> NewScene(3, 2))
    @@ ("palace" :> NewPalaceContainer(1, 1, 2, 2))
    @@ ("text" :> NewCustomText(1, 0, <<"W", "i">>))
    @@ ("rect" :> NewRectangle(0, 1, 2, 1))

InitDraw == Construct(DrawObjects) /\ GhostInit

NextDraw ==
    CallAddChild \/ CallRemoveChild \/ CallSetText \/ CallDraw \/ Return

SpecDraw == InitDraw /\ [][NextDraw]_vars

(***************************************************************************)
(* C8: a draw pass clears first and then paints the nodes below the scene  *)
(* in depth-first pre-order.                                               *)
(***************************************************************************)
\* where in the pass the context received the operations of node n
Painted(n) == {i \in 1..Len(ctx) : ctx[i].node = n /\ ctx[i].op # "clearRect"}

Before(S, T) == \A i \in S, j \in T : i < j

\* C8: clearRect comes first and once; exactly the nodes below the scene are
\* painted, each before its children, each subtree before the next sibling.
DrawIsPreOrder ==
    call.op = "draw" =>
        LET below == Subtree(call.self) \ {call.self} IN
        /\ Len(ctx) >= 1
        /\ ctx[1].op = "clearRect"
        /\ \A i \in 2..Len(ctx) : ctx[i].op # "clearRect"
        /\ \A n \in Nodes : Painted(n) # {} <=> n \in below
        /\ \A n \in below : \A i \in 1..Len(children[n]) :
              Before(Painted(n), Painted(children[n][i]))
        /\ \A n \in Subtree(call.self) : \A i, j \in 1..Len(children[n]) :
              i < j => \A u \in Subtree(children[n][i]),
                          v \in Subtree(children[n][j]) :
                          Before(Painted(u), Painted(v))

\* the scene has two children and the first of them has a child
DrawIsPreOrderWitness ==
    /\ call.op = "draw"
    /\ Len(children[call.self]) = 2
    /\ children[children[call.self][1]] # <<>>
    /\ Len(ctx) >= 6

(***************************************************************************)
(* C9: what CustomText.draw leaves in width and height.                    *)
(***************************************************************************)
\* the positions at which the characters of text node n were painted
Filled(n) == {i \in Painted(n) : ctx[i].op = "fillText"}

\* the last value of the running vertical offset used for painting n
FinalOffset(n) == ctx[CHOOSE i \in Filled(n) : \A j \in Filled(n) : j <= i].y

DrawnTexts ==
    {n \in Subtree(call.self) : kind[n] = "CustomText" /\ text[n] # <<>>}

\* one character per line, LineHeight apart, starting below the absolute
\* position; the width is that of the first character; containsPoint tests
\* against the assigned width and height
TextGeometry(n, h) ==
    /\ width[n] = MeasureText(<<text[n][1]>>)
    /\ height[n] = h
    /\ Cardinality(Filled(n)) = Len(text[n])
    /\ \A i \in Filled(n) :
          LET k == Cardinality({j \in Filled(n) : j <= i}) IN
          /\ ctx[i].s = text[n][k]
          /\ ctx[i].x = GetAbsoluteX(n)
          /\ ctx[i].y = GetAbsoluteY(n) + k * LineHeight
    /\ ContainsPoint(n, GetAbsoluteX(n) + MeasureText(<<text[n][1]>>),
                     GetAbsoluteY(n) + h)
    /\ ~ContainsPoint(n, GetAbsoluteX(n) + MeasureText(<<text[n][1]>>),
                      GetAbsoluteY(n) + h + 1)

\* C9 as stated: the height is the final value of the running offset.
TextHeightIsFinalOffset ==
    call.op = "draw" =>
        \A n \in DrawnTexts : TextGeometry(n, FinalOffset(n))

\* C9 amended: the height is the final value of the running offset plus 20
\* (the absolute y plus 20 for each character plus 20).
TextHeightIsFinalOffsetPlusFontHeight ==
    call.op = "draw" =>
        \A n \in DrawnTexts : TextGeometry(n, FinalOffset(n) + FontHeight)

\* a drawn text node of two characters, attached away from the origin
TextGeometryWitness ==
    /\ call.op = "draw"
    /\ \E n \in DrawnTexts :
          /\ Len(text[n]) = 2
          /\ GetAbsoluteY(n) > 0
          /\ pre.width[n] = 0 /\ pre.height[n] = 0
          /\ width[n] > 0 /\ height[n] > 0

(***************************************************************************)
(* C10: a second draw with nothing changed in between leaves the geometry  *)
(* of the first, and no draw changes a node that is not a text node.       *)
(***************************************************************************)
\* C10: draw leaves non-text nodes alone, and a repeated draw leaves every
\* width and height as the draw before it did.
DrawIsStable ==
    call.op = "draw" =>
        /\ \A n \in Nodes : kind[n] # "CustomText" =>
              /\ x[n] = pre.x[n] /\ y[n] = pre.y[n]
              /\ width[n] = pre.width[n] /\ height[n] = pre.height[n]
        /\ call.again => (width = pre.width /\ height = pre.height)

\* a repeated draw of a non-empty text node attached away from the origin
DrawIsStableWitness ==
    /\ call.op = "draw"
    /\ call.again
    /\ \E n \in DrawnTexts : GetAbsoluteY(n) > 0 /\ height[n] > 0

(***************************************************************************)
(* SpecTree: any run of at most MaxCalls addChild/removeChild calls, with  *)
(* any receiver and any argument, on three freshly constructed nodes.      *)
(***************************************************************************)
TreeObjects ==
    ("palace" :> NewPalaceContainer(1, 1, 4, 5))
    @@ ("rect" :> NewRectangle(0, 3, 1, 2))
    @@ ("text" :> NewCustomText(1, 0, <<"W", "i">>))

InitTree == Construct(TreeObjects) /\ GhostInit

TreeNote(op, self, arg) ==
    /\ call' = [NoCall EXCEPT !.op = op, !.self = self, !.arg = arg,
                              !.occ = Count(children[self], arg)]
    /\ prev' = call
    /\ pre' = Fields
    /\ calls' = calls + 1
    /\ UNCHANGED <<ctx, ret>>

TreeAddChild ==
    \E p \in Nodes, c \in Nodes :
        /\ calls < MaxCalls
        /\ AddChild(p, c)
        /\ TreeNote("addChild", p, c)

TreeRemoveChild ==
    \E p \in Nodes, c \in Nodes :
        /\ calls < MaxCalls
        /\ RemoveChild(p, c)
        /\ TreeNote("removeChild", p, c)

NextTree == TreeAddChild \/ TreeRemoveChild

SpecTree == InitTree /\ [][NextTree]_vars

(***************************************************************************)
(* C6: p.removeChild(c) removes the first occurrence of c from p.children, *)
(* keeps the order of the other entries and sets c.parent to null; when c  *)
(* does not occur in p.children nothing changes, whatever c.parent is.     *)
(***************************************************************************)
\* C6: the exact effect of the last removeChild call on the fields it found.
RemoveChildEffect ==
    call.op = "removeChild" =>
        LET p == call.self
            c == call.arg
            old == pre.children[p]
            occurs == {i \in 1..Len(old) : old[i] = c}
        IN  IF occurs # {}
            THEN LET k == CHOOSE i \in occurs : \A j \in occurs : i <= j IN
                 /\ children[p] = SubSeq(old, 1, k - 1)
                                    \o SubSeq(old, k + 1, Len(old))
                 /\ \A n \in Nodes \ {p} : children[n] = pre.children[n]
                 /\ parent[c] = Null
                 /\ \A n \in Nodes \ {c} : parent[n] = pre.parent[n]
                 /\ x = pre.x /\ y = pre.y
                 /\ width = pre.width /\ height = pre.height
            ELSE Fields = pre

\* a removal that found c between other entries, and one that did not find
\* c although c.parent pointed to another node
RemoveChildEffectWitness ==
    /\ call.op = "removeChild"
    /\ \/ /\ Len(pre.children[call.self]) >= 2
          /\ Count(pre.children[call.self], call.arg) = 1
          /\ pre.parent[call.arg] = call.self
       \/ /\ Count(pre.children[call.self], call.arg) = 0
          /\ pre.parent[call.arg] \notin {Null, call.self}

(***************************************************************************)
(* C7: removeChild twice in a row with the same receiver and argument.     *)
(***************************************************************************)
RemovedTwice ==
    /\ call.op = "removeChild"
    /\ prev.op = "removeChild"
    /\ call.self = prev.self
    /\ call.arg = prev.arg

\* C7 as stated: the second of two removeChild(c) calls in a row on p
\* changes nothing.
RemovalIdempotent == RemovedTwice => Fields = pre

\* C7 amended: the second call changes nothing exactly when c occurred at
\* most once in p.children before the first call; when c occurred more
\* often, the second call removes the next occurrence.
RemovalIdempotentWhenUnique ==
    RemovedTwice =>
        /\ prev.occ <= 1 => Fields = pre
        /\ prev.occ >= 2 =>
              /\ Len(children[call.self]) = Len(pre.children[call.self]) - 1
              /\ parent[call.arg] = Null

\* the first call removed the only occurrence, the second found none
RemovalIdempotentWitness ==
    /\ RemovedTwice
    /\ prev.occ = 1
    /\ call.occ = 0

(***************************************************************************)
(* Coordinate resolution, one call at a time.  getAbsoluteX/getAbsoluteY   *)
(* are recursive methods; here every invocation is a frame on a stack, so  *)
(* that a resolution that does not end is a run that never reaches its     *)
(* return.  ret holds the state of the running resolution:                 *)
(*   frames    the nodes whose method is active, outermost first           *)
(*   invoked   the number of invocations made so far                       *)
(*   returning TRUE once the innermost invocation has returned             *)
(*   value     the value handed back by the last return                    *)
(*   result    TRUE once the outermost invocation has returned             *)
(***************************************************************************)
ResolveOps == {"getAbsoluteX", "getAbsoluteY"}

Resolving == call.op \in ResolveOps

\* this.x in getAbsoluteX, this.y in getAbsoluteY
Local(op, n) == IF op = "getAbsoluteX" THEN x[n] ELSE y[n]

\* without Scene's override
ReturnsDirectlyNoOverride(n) == parent[n] = Null

\* the method run on n returns without calling its parent's: Scene's
\* override, or BaseShape's method when this.parent is null
ReturnsDirectly(n) == kind[n] = "Scene" \/ parent[n] = Null

\* return 0 (Scene), return this.x / this.y (BaseShape)
DirectValue(op, n) == IF kind[n] = "Scene" THEN 0 ELSE Local(op, n)

Top == ret.frames[Len(ret.frames)]

Pop(s) == SubSeq(s, 1, Len(s) - 1)

\* any caller invokes n.getAbsoluteX() or n.getAbsoluteY()
CallGetAbsolute ==
    \E op \in ResolveOps, n \in Nodes :
        /\ Idle
        /\ call' = [NoCall EXCEPT !.op = op, !.self = n]
        /\ ret' = [result |-> FALSE, frames |-> <<n>>, value |-> 0,
                   invoked |-> 1, returning |-> FALSE]
        /\ UNCHANGED <<shape, ctx, prev, pre, calls>>

\* this.parent.getAbsoluteX(): the parent's method is invoked
GetAbsoluteRecurse ==
    /\ Resolving
    /\ ~ret.result
    /\ ~ret.returning
    /\ ~ReturnsDirectly(Top)
    /\ Len(ret.frames) < MaxDepth
    /\ ret' = [ret EXCEPT !.frames = Append(@, parent[Top]),
                          !.invoked = @ + 1]
    /\ UNCHANGED <<shape, ctx, call, prev, pre, calls>>

\* return 0; return this.x: the innermost invocation returns
GetAbsoluteReturnDirect ==
    /\ Resolving
    /\ ~ret.result
    /\ ~ret.returning
    /\ ReturnsDirectly(Top)
    /\ ret' = [ret EXCEPT !.frames = Pop(@),
                          !.value = DirectValue(call.op, Top),
                          !.returning = TRUE,
                          !.result = (Len(ret.frames) = 1)]
    /\ UNCHANGED <<shape, ctx, call, prev, pre, calls>>

\* return this.parent.getAbsoluteX() + this.x, once the parent's has returned
GetAbsoluteReturnSum ==
    /\ Resolving
    /\ ~ret.result
    /\ ret.returning
    /\ ret' = [ret EXCEPT !.frames = Pop(@),
                          !.value = @ + Local(call.op, Top),
                          !.result = (Len(ret.frames) = 1)]
    /\ UNCHANGED <<shape, ctx, call, prev, pre, calls>>

GetAbsoluteStep ==
    GetAbsoluteRecurse \/ GetAbsoluteReturnDirect \/ GetAbsoluteReturnSum

\* the caller goes on once the resolution has returned
Returned == ret.result /\ Return

\* addChild and removeChild with any receiver and any argument
FreeAddChild ==
    \E p \in Nodes, c \in Nodes :
        /\ Idle
        /\ calls < MaxCalls
        /\ AddChild(p, c)
        /\ calls' = calls + 1
        /\ UNCHANGED <<ctx, call, prev, ret, pre>>

FreeRemoveChild ==
    \E p \in Nodes, c \in Nodes :
        /\ Idle
        /\ calls < MaxCalls
        /\ RemoveChild(p, c)
        /\ calls' = calls + 1
        /\ UNCHANGED <<ctx, call, prev, ret, pre>>

ResolveObjects ==
    ("scene" :> NewScene(3, 2))
    @@ ("palace" :> NewPalaceContainer(1, 2, 2, 2))
    @@ ("rect" :> NewRectangle(2, 1, 2, 1))

InitResolve == Construct(ResolveObjects) /\ GhostInit

NextResolve ==
    \/ FreeAddChild
    \/ FreeRemoveChild
    \/ CallGetAbsolute
    \/ GetAbsoluteRecurse
    \/ GetAbsoluteReturnDirect
    \/ GetAbsoluteReturnSum
    \/ Returned

SpecResolve == InitResolve /\ [][NextResolve]_vars

\* a call that has started runs on: nothing else runs on the UI thread
FairResolve == SpecResolve /\ WF_vars(GetAbsoluteStep)

(***************************************************************************)
(* C11: cycles and the end of coordinate resolution.                       *)
(***************************************************************************)
RECURSIVE Up(_, _)
\* the node k parent links above n, Null when the chain ends before
Up(n, k) ==
    IF k = 0 THEN n
    ELSE IF parent[n] = Null THEN Null
    ELSE Up(parent[n], k - 1)

NodeCount == Cardinality(Nodes)

\* n is reachable from itself by following parent links
OnCycle(n) == \E k \in 1..NodeCount : Up(n, k) = n

\* n and everything above it
Chain(n) == {Up(n, k) : k \in 0..NodeCount} \ {Null}

\* the parent links from n end at a node without parent
AcyclicChain(n) == \E k \in 1..NodeCount : Up(n, k) = Null

ChainLength(n) == Cardinality(Chain(n))

StopsAt(n, k) == Up(n, k) # Null /\ ReturnsDirectly(Up(n, k))

\* some node at or above n is a Scene or has no parent
Stops(n) == \E k \in 0..(NodeCount - 1) : StopsAt(n, k)

\* the nodes from n up to and including the first Scene or parentless node
CallsNeeded(n) ==
    1 + CHOOSE k \in 0..(NodeCount - 1) :
            StopsAt(n, k) /\ \A j \in 0..(k - 1) : ~StopsAt(n, j)

Resolved(op, n) == IF op = "getAbsoluteX" THEN GetAbsoluteX(n) ELSE GetAbsoluteY(n)

Listed(p, c) == Count(children[p], c) >= 1

\* C12 as stated: c appears in p.children iff c.parent = p, and no node
\* appears more than once across all child lists.
LinksConsistent ==
    /\ \A p \in Nodes, c \in Nodes : Listed(p, c) <=> parent[c] = p
    /\ \A c \in Nodes :
          Cardinality({<<p, i>> \in Nodes \X (1..MaxCalls + 1) :
                          i <= Len(children[p]) /\ children[p][i] = c}) <= 1

\* the call just made was a removeChild, or an addChild of a child that was
\* in no child list and had no parent
AttachedDetachedOnly ==
    \/ call'.op = "removeChild"
    \/ call'.op = "addChild" /\ Detached(call'.arg)

\* C12 amended: c.parent = p always implies that c appears in p.children;
\* the converse and the uniqueness of entries are kept by every removeChild
\* and by every addChild whose argument is in no child list at the time,
\* and can be broken by an addChild of a node that is already attached.
LinksConsistentWhileAttachingDetached ==
    /\ [](\A p \in Nodes, c \in Nodes : parent[c] = p => Listed(p, c))
    /\ [][(LinksConsistent /\ AttachedDetachedOnly) => LinksConsistent']_vars

\* a node properly moved: removed from one parent, then added to another
LinksConsistentWitness ==
    /\ LinksConsistent
    /\ call.op = "addChild"
    /\ prev.op = "removeChild"
    /\ prev.arg = call.arg
    /\ prev.occ = 1
    /\ prev.self # call.self
    /\ parent[call.arg] = call.self

====
